---- MODULE Spec2Model ----
(***************************************************************************)
(* Move-replay engine of pgn2pdf (src/src/game.rs): ChessGame::initial,    *)
(* ChessGame::play and the candidate searches it uses, driven as           *)
(* get_diagram (src/src/main.rs) drives them: a fresh game, then one       *)
(* play() per move of a trusted move list.                                 *)
(*                                                                         *)
(* board[y][x] is the occupant of column x (file a = 0) of row y (rank 8   *)
(* = 0); an occupant is <<color, piece>>, the empty square is None.        *)
(* Option<(usize, usize)> is a pair <<x, y>> or NoneSq, Option<usize> is   *)
(* an index or NoneIdx.                                                    *)
(***************************************************************************)
EXTENDS Integers, Sequences, FiniteSets, TLC

VARIABLES board, white_king, black_king, turn, status, played, game, probed, env, last,
          view, batch, conv, doc

vars == <<board, white_king, black_king, turn, status, played, game, probed, env, last,
          view, batch, conv, doc>>

\* ------------------------------------------------------------------ data

White == "White"
Black == "Black"
Color == {White, Black}

Pawn == "Pawn"
Knight == "Knight"
Bishop == "Bishop"
Rook == "Rook"
Queen == "Queen"
King == "King"
Piece == {Pawn, Knight, Bishop, Rook, Queen, King}

NoPiece == "None"
None == <<"None", "None">>
Some(color, piece) == <<color, piece>>
NoneSq == <<>>
NoneIdx == -1

Idx == 0 .. 7
Squares == Idx \X Idx

coord_valid(x) == x >= 0 /\ x < 8

is_valid(x, y) == coord_valid(x) /\ coord_valid(y)

opposite(color) == IF color = Black THEN White ELSE Black

\* The board with square (x, y) set to occ: self.board[y][x] = occ.
SetSq(b, x, y, occ) == [b EXCEPT ![y][x] = occ]

\* The board of ChessGame::initial(), row 0 first.
InitialRows ==
    <<<<Some(Black, Rook), Some(Black, Knight), Some(Black, Bishop), Some(Black, Queen),
        Some(Black, King), Some(Black, Bishop), Some(Black, Knight), Some(Black, Rook)>>,
      <<Some(Black, Pawn), Some(Black, Pawn), Some(Black, Pawn), Some(Black, Pawn),
        Some(Black, Pawn), Some(Black, Pawn), Some(Black, Pawn), Some(Black, Pawn)>>,
      <<None, None, None, None, None, None, None, None>>,
      <<None, None, None, None, None, None, None, None>>,
      <<None, None, None, None, None, None, None, None>>,
      <<None, None, None, None, None, None, None, None>>,
      <<Some(White, Pawn), Some(White, Pawn), Some(White, Pawn), Some(White, Pawn),
        Some(White, Pawn), Some(White, Pawn), Some(White, Pawn), Some(White, Pawn)>>,
      <<Some(White, Rook), Some(White, Knight), Some(White, Bishop), Some(White, Queen),
        Some(White, King), Some(White, Bishop), Some(White, Knight), Some(White, Rook)>>>>

\* initial() with White's king and queen on each other's squares.
initial_king_on_d1 ==
    [black_king |-> <<4, 0>>,
     board |-> [y \in Idx |-> [x \in Idx |->
                   IF y = 7 /\ x = 3 THEN Some(White, King)
                   ELSE IF y = 7 /\ x = 4 THEN Some(White, Queen)
                   ELSE InitialRows[y + 1][x + 1]]],
     turn |-> White,
     white_king |-> <<4, 7>>]

initial ==
    [black_king |-> <<4, 0>>,
     board |-> [y \in Idx |-> [x \in Idx |-> InitialRows[y + 1][x + 1]]],
     turn |-> White,
     white_king |-> <<4, 7>>]

\* ------------------------------------------------------ square addressing

Files == <<"a", "b", "c", "d", "e", "f", "g", "h">>
Digits == <<"0", "1", "2", "3", "4", "5", "6", "7", "8", "9">>

\* `line as usize - '0' as usize` for a digit character.
DigitValue(line) == (CHOOSE i \in 1 .. 10 : Digits[i] = line) - 1

ColumnIndex(column) == (CHOOSE i \in 1 .. 8 : Files[i] = column) - 1

\* The partial conversion with the rows counted from rank 1.
square_to_maybe_indexes_from_rank_1(square) ==
    LET column == square[1]
        line == square[2]
        x == IF column = "x" THEN NoneIdx ELSE ColumnIndex(column)
        y == IF line = "x" THEN NoneIdx ELSE DigitValue(line) - 1
    IN  <<x, y>>

square_to_maybe_indexes(square) ==
    LET column == square[1]
        line == square[2]
        x == IF column = "x" THEN NoneIdx ELSE ColumnIndex(column)
        y == IF line = "x" THEN NoneIdx ELSE 8 - DigitValue(line)
    IN  <<x, y>>

square_to_indexes(square) ==
    LET column == square[1]
        line == square[2]
    IN  <<ColumnIndex(column), 8 - DigitValue(line)>>

\* -------------------------------------------------------- candidate search

BishopDeltas == <<<<1, 1>>, <<1, -1>>, <<-1, 1>>, <<-1, -1>>>>
RookDeltas == <<<<1, 0>>, <<0, 1>>, <<-1, 0>>, <<0, -1>>>>
QueenDeltas == BishopDeltas \o RookDeltas
KingDeltas == <<<<-1, -1>>, <<0, -1>>, <<1, -1>>, <<-1, 0>>, <<1, 0>>,
                <<-1, 1>>, <<0, 1>>, <<1, 1>>>>
KnightDeltas == <<<<-1, -2>>, <<-2, -1>>, <<1, -2>>, <<2, -1>>,
                  <<-1, 2>>, <<-2, 1>>, <<1, 2>>, <<2, 1>>>>

KingOf(g, color) == IF color = White THEN g.white_king ELSE g.black_king

\* The hint test made on a square holding a piece of the wanted type and
\* color: the file if one is hinted, else the rank if one is hinted.
HintAgrees(x, y, maybe_from_x, maybe_from_y) ==
    IF maybe_from_x # NoneIdx THEN x = maybe_from_x
    ELSE IF maybe_from_y # NoneIdx THEN y = maybe_from_y
    ELSE TRUE

\* The game as the methods see it (self).
Self(b, wk, bk, t) == [board |-> b, white_king |-> wk, black_king |-> bk, turn |-> t]

\* A search's result: the square returned (or NoneSq) and self on return
\* (the searches take &mut self).
Found(sq, g) == [sq |-> sq, self |-> g]

RECURSIVE Scan(_, _, _, _, _, _, _, _, _, _)
RECURSIVE FindFrom(_, _, _, _, _, _, _, _, _, _)
RECURSIVE piece_can_move(_, _, _, _)

\* find_piece!: the body of the while loop on the square (x, y), pcm being
\* `!check_can_move || self.piece_can_move(x, y, color)` and self after it.
\* A square that fails the filter, an empty square, and a piece of the
\* wanted type that is of the other color or fails the hint, let the walk
\* go on; a piece of another type breaks it.
ScanSquare(pcm, piece, color, maybe_from_x, maybe_from_y, check_can_move, x, y, dx, dy) ==
    IF /\ pcm.can_move
       /\ pcm.self.board[y][x] # None
       /\ pcm.self.board[y][x][2] = piece
       /\ pcm.self.board[y][x][1] = color
       /\ HintAgrees(x, y, maybe_from_x, maybe_from_y)
    THEN Found(<<x, y>>, pcm.self)
    ELSE IF /\ pcm.can_move
            /\ pcm.self.board[y][x] # None
            /\ pcm.self.board[y][x][2] # piece
    THEN Found(NoneSq, pcm.self)
    ELSE Scan(pcm.self, piece, color, maybe_from_x, maybe_from_y, check_can_move,
              x + dx, y + dy, dx, dy)

\* find_piece!: the while loop of one direction (dx, dy), from (x, y) on.
\* It ends with the square returned, or with NoneSq at a break or at the
\* edge of the board.
Scan(g, piece, color, maybe_from_x, maybe_from_y, check_can_move, x, y, dx, dy) ==
    IF ~is_valid(x, y) THEN Found(NoneSq, g)
    ELSE ScanSquare(IF check_can_move THEN piece_can_move(g, x, y, color)
                    ELSE [can_move |-> TRUE, self |-> g],
                    piece, color, maybe_from_x, maybe_from_y, check_can_move, x, y, dx, dy)

\* find_piece!: after the walk r of the i-th direction, return its square
\* or go on with the next direction.
FindNext(r, piece, deltas, i, to_x, to_y, color, maybe_from_x, maybe_from_y, check_can_move) ==
    IF r.sq # NoneSq THEN r
    ELSE FindFrom(r.self, piece, deltas, i + 1, to_x, to_y, color,
                  maybe_from_x, maybe_from_y, check_can_move)

\* find_piece!: the for loop over the deltas, from the i-th on.
FindFrom(g, piece, deltas, i, to_x, to_y, color, maybe_from_x, maybe_from_y, check_can_move) ==
    IF i > Len(deltas) THEN Found(NoneSq, g)
    ELSE FindNext(Scan(g, piece, color, maybe_from_x, maybe_from_y, check_can_move,
                       to_x + deltas[i][1], to_y + deltas[i][2], deltas[i][1], deltas[i][2]),
                  piece, deltas, i, to_x, to_y, color, maybe_from_x, maybe_from_y,
                  check_can_move)

find_piece(g, piece, deltas, to_x, to_y, color, maybe_from_x, maybe_from_y, check_can_move) ==
    IF maybe_from_x # NoneIdx /\ maybe_from_y # NoneIdx
    THEN Found(<<maybe_from_x, maybe_from_y>>, g)
    ELSE FindFrom(g, piece, deltas, 1, to_x, to_y, color, maybe_from_x, maybe_from_y,
                  check_can_move)

find_bishop(g, to_x, to_y, color, maybe_from_x, maybe_from_y, check_can_move) ==
    find_piece(g, Bishop, BishopDeltas, to_x, to_y, color, maybe_from_x, maybe_from_y,
               check_can_move)

find_queen(g, to_x, to_y, color, maybe_from_x, maybe_from_y, check_can_move) ==
    find_piece(g, Queen, QueenDeltas, to_x, to_y, color, maybe_from_x, maybe_from_y,
               check_can_move)

find_rook(g, to_x, to_y, color, maybe_from_x, maybe_from_y, check_can_move) ==
    find_piece(g, Rook, RookDeltas, to_x, to_y, color, maybe_from_x, maybe_from_y,
               check_can_move)

\* piece_can_move without the write of line 364.
RestoreNothing(g, x, y, piece) == g

\* piece_can_move, line 364: self.board[y][x] = piece.
Restore(g, x, y, piece) == [g EXCEPT !.board = SetSq(g.board, x, y, piece)]

\* piece_can_move, lines 358-364, the || chain: after find_queen (q),
\* after find_rook (r), after find_bishop (b).
AfterQueen(q, x, y, piece) ==
    [can_move |-> q.sq = NoneSq, self |-> Restore(q.self, x, y, piece)]

AfterRook(r, king, color, x, y, piece) ==
    IF r.sq # NoneSq THEN [can_move |-> FALSE, self |-> Restore(r.self, x, y, piece)]
    ELSE AfterQueen(find_queen(r.self, king[1], king[2], opposite(color),
                               NoneIdx, NoneIdx, FALSE),
                    x, y, piece)

AfterBishop(b, king, color, x, y, piece) ==
    IF b.sq # NoneSq THEN [can_move |-> FALSE, self |-> Restore(b.self, x, y, piece)]
    ELSE AfterRook(find_rook(b.self, king[1], king[2], opposite(color),
                             NoneIdx, NoneIdx, FALSE),
                   king, color, x, y, piece)

\* piece_can_move: [can_move, self], self being the game on return.  The
\* occupant of (x, y) is swapped out for None; if there was one, the three
\* searches run from color's king on the board without it.
piece_can_move(g, x, y, color) ==
    IF g.board[y][x] # None
    THEN AfterBishop(find_bishop([g EXCEPT !.board = SetSq(g.board, x, y, None)],
                                 KingOf(g, color)[1], KingOf(g, color)[2], opposite(color),
                                 NoneIdx, NoneIdx, FALSE),
                     KingOf(g, color), color, x, y, g.board[y][x])
    ELSE [can_move |-> TRUE, self |-> g]

\* find_king: the first adjacent square, in delta order, holding color's king.
RECURSIVE FindKingFrom(_, _, _, _, _)
FindKingFrom(g, i, to_x, to_y, color) ==
    IF i > Len(KingDeltas) THEN NoneSq
    ELSE LET x == to_x + KingDeltas[i][1]
             y == to_y + KingDeltas[i][2]
         IN  IF is_valid(x, y) /\ g.board[y][x] = Some(color, King) THEN <<x, y>>
             ELSE FindKingFrom(g, i + 1, to_x, to_y, color)

find_king(g, to_x, to_y, color) == Found(FindKingFrom(g, 1, to_x, to_y, color), g)

RECURSIVE FindKnightFrom(_, _, _, _, _, _, _)

\* The test of find_knight without the comparison to the hint.
KnightSquareAnyFile(pcm, i, to_x, to_y, color, maybe_from_x, maybe_from_y, x, y) ==
    IF /\ pcm.can_move
       /\ pcm.self.board[y][x] = Some(color, Knight)
    THEN Found(<<x, y>>, pcm.self)
    ELSE FindKnightFrom(pcm.self, i + 1, to_x, to_y, color, maybe_from_x, maybe_from_y)

\* find_knight: the test of the square (x, y) of the i-th delta, pcm being
\* the answer of piece_can_move(x, y, color) and self after it.
KnightSquare(pcm, i, to_x, to_y, color, maybe_from_x, maybe_from_y, x, y) ==
    IF /\ pcm.can_move
       /\ pcm.self.board[y][x] = Some(color, Knight)
       /\ HintAgrees(x, y, maybe_from_x, maybe_from_y)
    THEN Found(<<x, y>>, pcm.self)
    ELSE FindKnightFrom(pcm.self, i + 1, to_x, to_y, color, maybe_from_x, maybe_from_y)

\* find_knight: the for loop over the deltas, from the i-th on.
FindKnightFrom(g, i, to_x, to_y, color, maybe_from_x, maybe_from_y) ==
    IF i > Len(KnightDeltas) THEN Found(NoneSq, g)
    ELSE LET x == to_x + KnightDeltas[i][1]
             y == to_y + KnightDeltas[i][2]
         IN  IF ~is_valid(x, y)
             THEN FindKnightFrom(g, i + 1, to_x, to_y, color, maybe_from_x, maybe_from_y)
             ELSE KnightSquare(piece_can_move(g, x, y, color), i, to_x, to_y, color,
                               maybe_from_x, maybe_from_y, x, y)

find_knight(g, to_x, to_y, color, maybe_from_x, maybe_from_y) ==
    IF maybe_from_x # NoneIdx /\ maybe_from_y # NoneIdx
    THEN Found(<<maybe_from_x, maybe_from_y>>, g)
    ELSE FindKnightFrom(g, 1, to_x, to_y, color, maybe_from_x, maybe_from_y)

\* find_pawn: `if self.piece_can_move(x, y, color) { return Some((x, y)); }`,
\* pcm being the answer of the filter and self after it.
PawnAnswer(pcm, x, y) == Found(IF pcm.can_move THEN <<x, y>> ELSE NoneSq, pcm.self)

\* find_pawn, one `if let Some((_, Pawn)) = self.board[y][x] { if
\* self.piece_can_move(x, y, color) { return Some((x, y)); } }`: the
\* square returned, or NoneSq when the function goes on.
TryPawn(g, x, y, color) ==
    IF g.board[y][x] # None /\ g.board[y][x][2] = Pawn
    THEN PawnAnswer(piece_can_move(g, x, y, color), x, y)
    ELSE Found(NoneSq, g)

\* find_pawn: after a first look that returned `first`, the second look,
\* at (x, y), made when the first returned nothing and `valid` holds.
ElsePawn(first, x, y, color, valid) ==
    IF first.sq # NoneSq \/ ~valid THEN first
    ELSE TryPawn(first.self, x, y, color)

\* find_pawn without the second look, two rows behind the target.
find_pawn_one_row(g, to_x, to_y, maybe_from_x, is_capture, color, delta) ==
    IF ~coord_valid(to_y + delta) THEN Found(NoneSq, g)
    ELSE IF is_capture /\ maybe_from_x # NoneIdx
    THEN TryPawn(g, maybe_from_x, to_y + delta, color)
    ELSE TryPawn(g, to_x, to_y + delta, color)

find_pawn(g, to_x, to_y, maybe_from_x, is_capture, color, delta) ==
    LET index1 == to_y + delta
        index2 == to_y + delta * 2
    IN  IF ~coord_valid(index1) THEN Found(NoneSq, g)
        ELSE IF is_capture
        THEN IF maybe_from_x # NoneIdx
             THEN TryPawn(g, maybe_from_x, index1, color)
             ELSE ElsePawn(IF coord_valid(to_x - 1) THEN TryPawn(g, to_x - 1, index1, color)
                           ELSE Found(NoneSq, g),
                           to_x + 1, index1, color, coord_valid(to_x + 1))
        ELSE ElsePawn(TryPawn(g, to_x, index1, color),
                      to_x, index2, color, coord_valid(index2))

\* ---------------------------------------------------------- move application

\* A GameMove's move: BasicMove {from, is_capture, piece, promoted_to, to},
\* CastleKingside or CastleQueenside.  Squares are the parser's Square
\* values in the lower case the engine reads them in: <<file, rank>>, with
\* "x" for a component the notation leaves out.
BasicMove(from, is_capture, piece, promoted_to, to) ==
    [kind |-> "BasicMove", from |-> from, is_capture |-> is_capture, piece |-> piece,
     promoted_to |-> promoted_to, to |-> to]
CastleKingside == [kind |-> "CastleKingside"]
CastleQueenside == [kind |-> "CastleQueenside"]

\* move_king that writes the cache of the other side.
move_king_of_opponent(g, color, x, y) ==
    IF color = White THEN [g EXCEPT !.black_king = <<x, y>>]
    ELSE [g EXCEPT !.white_king = <<x, y>>]

move_king(g, color, x, y) ==
    IF color = White THEN [g EXCEPT !.white_king = <<x, y>>]
    ELSE [g EXCEPT !.black_king = <<x, y>>]

\* The outcome of a play_white / play_black call: self on return, the
\* origin the search resolved (NoneSq for a castle) and whether the call
\* panicked on the unwrap of a search that returned None.
Outcome(g, from, panicked) == [self |-> g, from |-> from, panicked |-> panicked]

\* The two writes that end every arm of the BasicMove match.
PlaceAndClear(g, to_x, to_y, occ, from) ==
    [g EXCEPT !.board = SetSq(SetSq(g.board, to_x, to_y, occ), from[1], from[2], None)]

\* The Pawn arm without the en passant write.
EnPassantSkipped(g, is_capture, to_x, to_y, delta) == g

\* Line 110-112: the en passant write of the Pawn arm.
EnPassant(g, is_capture, to_x, to_y, delta) ==
    IF is_capture /\ g.board[to_y][to_x] = None
    THEN [g EXCEPT !.board = SetSq(g.board, to_x, to_y + delta, None)]
    ELSE g

CastleLine(color) == IF color = Black THEN 0 ELSE 7

\* A castle that leaves the rook's corner as it is.
CastleKeepsCorner(g, color, king_x, rook_x, rook_from) ==
    LET line == IF color = Black THEN 0 ELSE 7
        g1 == IF color = White THEN [g EXCEPT !.white_king = <<king_x, line>>]
              ELSE [g EXCEPT !.black_king = <<king_x, line>>]
        b1 == SetSq(g1.board, king_x, line, Some(color, King))
        b2 == SetSq(b1, 4, line, None)
        b3 == SetSq(b2, rook_x, line, Some(color, Rook))
    IN  [g1 EXCEPT !.board = b3]

\* The CastleKingside / CastleQueenside arms: king to king_x, rook from
\* rook_from to rook_x, on the mover's line.
Castle(g, color, king_x, rook_x, rook_from) ==
    LET line == CastleLine(color)
        g1 == move_king(g, color, king_x, line)
        b1 == SetSq(g1.board, king_x, line, Some(color, King))
        b2 == SetSq(b1, 4, line, None)
        b3 == SetSq(b2, rook_x, line, Some(color, Rook))
        b4 == SetSq(b3, rook_from, line, None)
    IN  [g1 EXCEPT !.board = b4]

\* play!, BasicMove arm: the search the piece of the move selects.
Resolve(g, color, delta, m, maybe, to) ==
    CASE m.piece = Bishop -> find_bishop(g, to[1], to[2], color, maybe[1], maybe[2], TRUE)
      [] m.piece = King -> find_king(g, to[1], to[2], color)
      [] m.piece = Knight -> find_knight(g, to[1], to[2], color, maybe[1], maybe[2])
      [] m.piece = Pawn -> find_pawn(g, to[1], to[2], maybe[1], m.is_capture, color, delta)
      [] m.piece = Queen -> find_queen(g, to[1], to[2], color, maybe[1], maybe[2], TRUE)
      [] m.piece = Rook -> find_rook(g, to[1], to[2], color, maybe[1], maybe[2], TRUE)

\* The Pawn arm placing a pawn whatever the move promotes to.
new_piece_is_pawn(promoted_to) == Pawn

\* play!, Pawn arm: new_piece, the piece put on the destination.
new_piece(promoted_to) == IF promoted_to # NoPiece THEN promoted_to ELSE Pawn

\* play!, BasicMove arm: the unwrap of the search's result r, then the
\* writes of the piece's arm.
Apply(r, color, delta, m, to) ==
    IF r.sq = NoneSq THEN Outcome(r.self, NoneSq, TRUE)
    ELSE CASE m.piece = King ->
                Outcome(move_king(PlaceAndClear(r.self, to[1], to[2], Some(color, King), r.sq),
                                  color, to[1], to[2]), r.sq, FALSE)
           [] m.piece = Pawn ->
                Outcome(PlaceAndClear(EnPassant(r.self, m.is_capture, to[1], to[2], delta),
                                      to[1], to[2],
                                      Some(color, new_piece(m.promoted_to)),
                                      r.sq),
                        r.sq, FALSE)
           [] OTHER ->
                Outcome(PlaceAndClear(r.self, to[1], to[2], Some(color, m.piece), r.sq),
                        r.sq, FALSE)

\* play!: play_white is play_color(g, White, 1, m), play_black is
\* play_color(g, Black, -1, m).
play_color(g, color, delta, m) ==
    IF m.kind = "BasicMove"
    THEN Apply(Resolve(g, color, delta, m, square_to_maybe_indexes(m.from),
                       square_to_indexes(m.to)),
               color, delta, m, square_to_indexes(m.to))
    ELSE IF m.kind = "CastleKingside"
    THEN Outcome(Castle(g, color, 6, 5, 7), NoneSq, FALSE)
    ELSE Outcome(Castle(g, color, 2, 3, 0), NoneSq, FALSE)

play_white(g, m) == play_color(g, White, 1, m)

play_black(g, m) == play_color(g, Black, -1, m)

\* play() that writes the turn whether or not the move was applied.
TurnAlways(o, color) == [o EXCEPT !.self.turn = color]

\* ChessGame::play: `self.turn = ...` after play_white / play_black has
\* returned (o); a call that panicked writes nothing.
Turn(o, color) == IF o.panicked THEN o ELSE [o EXCEPT !.self.turn = color]

\* play() that flips the turn after a basic move only.
play_castle_keeps_turn(g, m) ==
    IF m.kind # "BasicMove" THEN play_color(g, g.turn, 0, m)
    ELSE IF g.turn = White THEN Turn(play_white(g, m), Black)
    ELSE Turn(play_black(g, m), White)

\* ChessGame::play.
play(g, m) ==
    IF g.turn = White THEN Turn(play_white(g, m), Black)
    ELSE Turn(play_black(g, m), White)

\* ------------------------------------------------------------- rendering
\* The text show() returns is a sequence of lines; a line is Line(refs,
\* icon): refs the numbers n of its character references "&#n;", icon the
\* literal text of the side-to-move icon that follows them ("" for none).
\* Every line but the last ends with " +\n".

Line(refs, icon) == [refs |-> refs, icon |-> icon]

piece_to_num(square, white_square) ==
    IF square # None
    THEN IF white_square
         THEN CASE square = Some(Black, Bishop) -> 9821
                [] square = Some(Black, King) -> 9818
                [] square = Some(Black, Knight) -> 9822
                [] square = Some(Black, Pawn) -> 9823
                [] square = Some(Black, Queen) -> 9819
                [] square = Some(Black, Rook) -> 9820
                [] square = Some(White, Bishop) -> 9815
                [] square = Some(White, King) -> 9812
                [] square = Some(White, Knight) -> 9816
                [] square = Some(White, Pawn) -> 9817
                [] square = Some(White, Queen) -> 9813
                [] square = Some(White, Rook) -> 9814
         ELSE CASE square = Some(Black, Bishop) -> 57693
                [] square = Some(Black, King) -> 57690
                [] square = Some(Black, Knight) -> 57694
                [] square = Some(Black, Pawn) -> 57695
                [] square = Some(Black, Queen) -> 57691
                [] square = Some(Black, Rook) -> 57692
                [] square = Some(White, Bishop) -> 57687
                [] square = Some(White, King) -> 57684
                [] square = Some(White, Knight) -> 57688
                [] square = Some(White, Pawn) -> 57689
                [] square = Some(White, Queen) -> 57685
                [] square = Some(White, Rook) -> 57686
    ELSE IF white_square THEN 160 ELSE 57600

\* The line of row y with the marker of Black on the top row whoever is
\* to move.
ShowRowBlackAlways(g, y) ==
    Line(<<(7 - y) + 58128>>
         \o [i \in 1 .. 8 |-> piece_to_num(g.board[y][i - 1], ((i - 1) + y) % 2 = 0)]
         \o <<((7 - y) + 58128) + 16>>,
         IF y = 0 THEN "icon:circle[size=70%]"
         ELSE IF y = 7 /\ g.turn = White THEN "icon:circle-thin[size=70%]"
         ELSE "")

\* show(): the line of row y, between its two border characters.
ShowRow(g, y) ==
    Line(<<(7 - y) + 58128>>
         \o [i \in 1 .. 8 |-> piece_to_num(g.board[y][i - 1], ((i - 1) + y) % 2 = 0)]
         \o <<((7 - y) + 58128) + 16>>,
         IF y = 0 /\ g.turn = Black THEN "icon:circle[size=70%]"
         ELSE IF y = 7 /\ g.turn = White THEN "icon:circle-thin[size=70%]"
         ELSE "")

\* show() that leaves the other side to move.
show_flips_turn(g) ==
    [text |-> <<ShowRow(g, 0)>>, self |-> [g EXCEPT !.turn = opposite(g.turn)]]

\* ChessGame::show(&self): the text returned, and self on return.
show(g) ==
    [text |-> <<Line(<<58120, 58152, 58153, 58154, 58155, 58156, 58157, 58158, 58159, 58121>>,
                     "")>>
              \o [i \in 1 .. 8 |-> ShowRow(g, i - 1)]
              \o <<Line(<<58122, 58136, 58137, 58138, 58139, 58140, 58141, 58142, 58143, 58123>>,
                        "")>>,
     self |-> g]

\* --------------------------------------------- the trusted move source
\* The games replayed are legal chess games written in standard notation.
\* What follows is the producer of those moves: the rules of chess on the
\* board of the game, and the notation of a move.  A move of the producer
\* is [from, to, promo], a castle being the king's move of two files.

Abs(n) == IF n < 0 THEN -n ELSE n
Sgn(n) == IF n < 0 THEN -1 ELSE IF n > 0 THEN 1 ELSE 0

At(b, sq) == b[sq[2]][sq[1]]
ColorAt(b, sq) == At(b, sq)[1]
PieceAt(b, sq) == At(b, sq)[2]

Aligned(a, c) ==
    /\ a # c
    /\ \/ a[1] = c[1]
       \/ a[2] = c[2]
       \/ Abs(a[1] - c[1]) = Abs(a[2] - c[2])

\* The squares strictly between two aligned squares.
Between(a, c) ==
    LET dx == Sgn(c[1] - a[1])
        dy == Sgn(c[2] - a[2])
        n == IF a[1] # c[1] THEN Abs(c[1] - a[1]) ELSE Abs(c[2] - a[2])
    IN  {<<a[1] + k * dx, a[2] + k * dy>> : k \in 1 .. n - 1}

ClearLine(b, a, c) == \A sq \in Between(a, c) : At(b, sq) = None

Forward(color) == IF color = White THEN -1 ELSE 1
HomeRow(color) == IF color = White THEN 6 ELSE 1

\* The piece on `from` attacks the square `to`.
Attacks(b, from, to) ==
    LET p == PieceAt(b, from)
        dx == to[1] - from[1]
        dy == to[2] - from[2]
    IN  CASE p = Pawn -> Abs(dx) = 1 /\ dy = Forward(ColorAt(b, from))
          [] p = Knight -> {Abs(dx), Abs(dy)} = {1, 2}
          [] p = King -> from # to /\ Abs(dx) <= 1 /\ Abs(dy) <= 1
          [] p = Bishop -> Abs(dx) = Abs(dy) /\ dx # 0 /\ ClearLine(b, from, to)
          [] p = Rook -> (dx = 0) # (dy = 0) /\ ClearLine(b, from, to)
          [] p = Queen -> Aligned(from, to) /\ ClearLine(b, from, to)
          [] OTHER -> FALSE

Attacked(b, sq, by) ==
    \E from \in Squares : ColorAt(b, from) = by /\ Attacks(b, from, sq)

KingSquare(b, color) == CHOOSE sq \in Squares : At(b, sq) = Some(color, King)

InCheck(b, color) == Attacked(b, KingSquare(b, color), opposite(color))

IsCastle(b, mv) == PieceAt(b, mv.from) = King /\ Abs(mv.to[1] - mv.from[1]) = 2

IsEnPassant(b, mv) ==
    PieceAt(b, mv.from) = Pawn /\ mv.from[1] # mv.to[1] /\ At(b, mv.to) = None

\* The corner the rook of a castle comes from, and the file it goes to.
CastleRookFrom(mv) == <<IF mv.to[1] = 6 THEN 7 ELSE 0, mv.from[2]>>
CastleRookTo(mv) == <<IF mv.to[1] = 6 THEN 5 ELSE 3, mv.from[2]>>

\* The rules' board after a move.
After(b, mv) ==
    LET occ == At(b, mv.from)
        placed == IF mv.promo # NoPiece THEN Some(occ[1], mv.promo) ELSE occ
        b1 == SetSq(SetSq(b, mv.from[1], mv.from[2], None), mv.to[1], mv.to[2], placed)
    IN  IF IsCastle(b, mv)
        THEN SetSq(SetSq(b1, CastleRookFrom(mv)[1], mv.from[2], None),
                   CastleRookTo(mv)[1], mv.from[2], Some(occ[1], Rook))
        ELSE IF IsEnPassant(b, mv) THEN SetSq(b1, mv.to[1], mv.from[2], None)
        ELSE b1

Promotions == {Queen, Rook, Bishop, Knight}

PawnMove(b, e, mv) ==
    LET color == ColorAt(b, mv.from)
        dx == mv.to[1] - mv.from[1]
        dy == mv.to[2] - mv.from[2]
        f == Forward(color)
    IN  /\ \/ dx = 0 /\ dy = f /\ At(b, mv.to) = None
           \/ /\ dx = 0 /\ dy = 2 * f /\ mv.from[2] = HomeRow(color)
              /\ At(b, mv.to) = None /\ At(b, <<mv.from[1], mv.from[2] + f>>) = None
           \/ /\ Abs(dx) = 1 /\ dy = f
              /\ \/ ColorAt(b, mv.to) = opposite(color)
                 \/ mv.to = e.ep
        /\ (mv.promo # NoPiece) = (mv.to[2] \in {0, 7})

CastleMove(b, e, mv) ==
    LET color == ColorAt(b, mv.from)
        rook == CastleRookFrom(mv)
    IN  /\ mv.from = <<4, CastleLine(color)>>
        /\ mv.to \in {<<6, mv.from[2]>>, <<2, mv.from[2]>>}
        /\ rook \in e.rights
        /\ At(b, rook) = Some(color, Rook)
        /\ ClearLine(b, mv.from, rook)
        /\ \A sq \in {mv.from, mv.to} \cup Between(mv.from, mv.to) :
               ~Attacked(b, sq, opposite(color))

\* A move the rules allow to `color` on board b (e: castling rights and en
\* passant square of the game).
Legal(b, e, color, mv) ==
    /\ ColorAt(b, mv.from) = color
    /\ ColorAt(b, mv.to) # color
    /\ CASE PieceAt(b, mv.from) = Pawn -> PawnMove(b, e, mv)
         [] PieceAt(b, mv.from) = King /\ Abs(mv.to[1] - mv.from[1]) = 2 ->
                mv.promo = NoPiece /\ CastleMove(b, e, mv)
         [] OTHER -> mv.promo = NoPiece /\ Attacks(b, mv.from, mv.to)
    /\ ~InCheck(After(b, mv), color)

Mv(from, to, promo) == [from |-> from, to |-> to, promo |-> promo]

LegalMoves(b, e, color) ==
    UNION {
        UNION {
            {mv \in {Mv(from, to, promo) : promo \in
                        IF PieceAt(b, from) = Pawn /\ to[2] \in {0, 7} THEN Promotions
                        ELSE {NoPiece}} :
                Legal(b, e, color, mv)}
            : to \in Squares}
        : from \in {sq \in Squares : ColorAt(b, sq) = color}}

\* The castling rights and the en passant square after a move.
Corners == {<<0, 0>>, <<7, 0>>, <<0, 7>>, <<7, 7>>}
EnvInit == [rights |-> Corners, ep |-> NoneSq]

EnvAfter(b, e, mv) ==
    LET kingMoved == IF PieceAt(b, mv.from) = King
                     THEN {<<0, mv.from[2]>>, <<7, mv.from[2]>>} ELSE {}
    IN  [rights |-> (e.rights \ {mv.from, mv.to}) \ kingMoved,
         ep |-> IF PieceAt(b, mv.from) = Pawn /\ Abs(mv.to[2] - mv.from[2]) = 2
                THEN <<mv.from[1], (mv.from[2] + mv.to[2]) \div 2>>
                ELSE NoneSq]

\* The parser's Square of a square of the board, read in lower case.
SquareName(sq) == <<Files[sq[1] + 1], Digits[(8 - sq[2]) + 1]>>

\* The origin hint standard notation gives: none when no other piece of
\* the same kind can go to the same square, else the file if it tells the
\* pieces apart, else the rank, else both; the file for a pawn capture.
HintAmong(others, p, name, mv) ==
    CASE p = King -> <<"x", "x">>
      [] p = Pawn -> IF mv.from[1] # mv.to[1] THEN <<name[1], "x">> ELSE <<"x", "x">>
      [] OTHER ->
           IF others = {} THEN <<"x", "x">>
           ELSE IF \A sq \in others : sq[1] # mv.from[1] THEN <<name[1], "x">>
           ELSE IF \A sq \in others : sq[2] # mv.from[2] THEN <<"x", name[2]>>
           ELSE name

Hint(b, e, color, mv) ==
    HintAmong({sq \in Squares \ {mv.from} :
                  /\ At(b, sq) = At(b, mv.from)
                  /\ Legal(b, e, color, Mv(sq, mv.to, mv.promo))},
              PieceAt(b, mv.from), SquareName(mv.from), mv)

\* The move as the parser hands it to play().
Notation(b, e, color, mv) ==
    IF IsCastle(b, mv)
    THEN IF mv.to[1] = 6 THEN CastleKingside ELSE CastleQueenside
    ELSE BasicMove(Hint(b, e, color, mv),
                   At(b, mv.to) # None \/ IsEnPassant(b, mv),
                   PieceAt(b, mv.from), mv.promo, SquareName(mv.to))

\* The move with its origin written in full, file and rank.
LongNotation(b, e, color, mv) ==
    IF IsCastle(b, mv)
    THEN IF mv.to[1] = 6 THEN CastleKingside ELSE CastleQueenside
    ELSE BasicMove(SquareName(mv.from),
                   At(b, mv.to) # None \/ IsEnPassant(b, mv),
                   PieceAt(b, mv.from), mv.promo, SquareName(mv.to))

\* ------------------------------------------------------------- the games

\* A move of a game: from square, to square, promotion piece.
S(a, b, c, d, promo) == Mv(square_to_indexes(<<a, b>>), square_to_indexes(<<c, d>>), promo)

\* 1. e4 e5 2. Nf3 Nc6 3. Bc4 Bc5 4. O-O Nf6 5. d3 O-O 6. Bg5 h6 7. Bh4 d6 8.
\* Nbd2 Bg4 9. h3 Bh5 10. Re1 Re8 11. Nf1 a6 12. a4
ItalianGame ==
    <<S("e", "2", "e", "4", NoPiece), S("e", "7", "e", "5", NoPiece),
      S("g", "1", "f", "3", NoPiece), S("b", "8", "c", "6", NoPiece),
      S("f", "1", "c", "4", NoPiece), S("f", "8", "c", "5", NoPiece),
      S("e", "1", "g", "1", NoPiece), S("g", "8", "f", "6", NoPiece),
      S("d", "2", "d", "3", NoPiece), S("e", "8", "g", "8", NoPiece),
      S("c", "1", "g", "5", NoPiece), S("h", "7", "h", "6", NoPiece),
      S("g", "5", "h", "4", NoPiece), S("d", "7", "d", "6", NoPiece),
      S("b", "1", "d", "2", NoPiece), S("c", "8", "g", "4", NoPiece),
      S("h", "2", "h", "3", NoPiece), S("g", "4", "h", "5", NoPiece),
      S("f", "1", "e", "1", NoPiece), S("f", "8", "e", "8", NoPiece),
      S("d", "2", "f", "1", NoPiece), S("a", "7", "a", "6", NoPiece),
      S("a", "2", "a", "4", NoPiece)>>

\* 1. d4 d5 2. Nc3 Nc6 3. Bf4 Bf5 4. Qd2 Qd7 5. O-O-O O-O-O 6. Nf3 Nf6 7. e3
\* e6 8. Bd3 Bd6 9. Rhe1 Rhe8 10. Bxf5 exf5 11. Qd3 a6 12. a3
LongCastles ==
    <<S("d", "2", "d", "4", NoPiece), S("d", "7", "d", "5", NoPiece),
      S("b", "1", "c", "3", NoPiece), S("b", "8", "c", "6", NoPiece),
      S("c", "1", "f", "4", NoPiece), S("c", "8", "f", "5", NoPiece),
      S("d", "1", "d", "2", NoPiece), S("d", "8", "d", "7", NoPiece),
      S("e", "1", "c", "1", NoPiece), S("e", "8", "c", "8", NoPiece),
      S("g", "1", "f", "3", NoPiece), S("g", "8", "f", "6", NoPiece),
      S("e", "2", "e", "3", NoPiece), S("e", "7", "e", "6", NoPiece),
      S("f", "1", "d", "3", NoPiece), S("f", "8", "d", "6", NoPiece),
      S("h", "1", "e", "1", NoPiece), S("h", "8", "e", "8", NoPiece),
      S("d", "3", "f", "5", NoPiece), S("e", "6", "f", "5", NoPiece),
      S("d", "2", "d", "3", NoPiece), S("a", "7", "a", "6", NoPiece),
      S("a", "2", "a", "3", NoPiece)>>

\* 1. e4 a6 2. e5 d5 3. exd6 cxd6 4. a4 b5 5. a5 b4 6. c4 bxc3 7. dxc3 d5 8.
\* c4 dxc4 9. Bxc4
EnPassants ==
    <<S("e", "2", "e", "4", NoPiece), S("a", "7", "a", "6", NoPiece),
      S("e", "4", "e", "5", NoPiece), S("d", "7", "d", "5", NoPiece),
      S("e", "5", "d", "6", NoPiece), S("c", "7", "d", "6", NoPiece),
      S("a", "2", "a", "4", NoPiece), S("b", "7", "b", "5", NoPiece),
      S("a", "4", "a", "5", NoPiece), S("b", "5", "b", "4", NoPiece),
      S("c", "2", "c", "4", NoPiece), S("b", "4", "c", "3", NoPiece),
      S("d", "2", "c", "3", NoPiece), S("d", "6", "d", "5", NoPiece),
      S("c", "3", "c", "4", NoPiece), S("d", "5", "c", "4", NoPiece),
      S("f", "1", "c", "4", NoPiece)>>

\* 1. e4 d5 2. Bb5+ c6
BishopCheck ==
    <<S("e", "2", "e", "4", NoPiece), S("d", "7", "d", "5", NoPiece),
      S("f", "1", "b", "5", NoPiece), S("c", "7", "c", "6", NoPiece)>>

\* 1. d4 e6 2. Bd2 Bb4 3. Nf3
BishopShield ==
    <<S("d", "2", "d", "4", NoPiece), S("e", "7", "e", "6", NoPiece),
      S("c", "1", "d", "2", NoPiece), S("f", "8", "b", "4", NoPiece),
      S("g", "1", "f", "3", NoPiece)>>

\* 1. h4 g5 2. hxg5 a6 3. g6 a5 4. gxh7 a4 5. hxg8=Q Rxg8 6. a3 Rg2 7. Nf3
\* Rg8
PawnPromotes ==
    <<S("h", "2", "h", "4", NoPiece), S("g", "7", "g", "5", NoPiece),
      S("h", "4", "g", "5", NoPiece), S("a", "7", "a", "6", NoPiece),
      S("g", "5", "g", "6", NoPiece), S("a", "6", "a", "5", NoPiece),
      S("g", "6", "h", "7", NoPiece), S("a", "5", "a", "4", NoPiece),
      S("h", "7", "g", "8", Queen), S("h", "8", "g", "8", NoPiece),
      S("a", "2", "a", "3", NoPiece), S("g", "8", "g", "2", NoPiece),
      S("g", "1", "f", "3", NoPiece), S("g", "2", "g", "8", NoPiece)>>

\* 1. e4 d5 2. exd5 e6 3. dxe6 Bd6 4. exf7+ Kxf7 5. a4 Nf6 6. Ra3 a6 7. h4 b6
\* 8. Rh3 a5 9. Rae3 Re8 10. Rg3
PinnedRook ==
    <<S("e", "2", "e", "4", NoPiece), S("d", "7", "d", "5", NoPiece),
      S("e", "4", "d", "5", NoPiece), S("e", "7", "e", "6", NoPiece),
      S("d", "5", "e", "6", NoPiece), S("f", "8", "d", "6", NoPiece),
      S("e", "6", "f", "7", NoPiece), S("e", "8", "f", "7", NoPiece),
      S("a", "2", "a", "4", NoPiece), S("g", "8", "f", "6", NoPiece),
      S("a", "1", "a", "3", NoPiece), S("a", "7", "a", "6", NoPiece),
      S("h", "2", "h", "4", NoPiece), S("b", "7", "b", "6", NoPiece),
      S("h", "1", "h", "3", NoPiece), S("a", "6", "a", "5", NoPiece),
      S("a", "3", "e", "3", NoPiece), S("h", "8", "e", "8", NoPiece),
      S("h", "3", "g", "3", NoPiece)>>

\* 1. e4 e5 2. Nc3 Nc6 3. d3 Bb4 4. Ne2 Nge7 5. a3 Ba5 6. b4 Bb6 7. Be3 d6 8.
\* Ng3 Be6
PinnedKnight ==
    <<S("e", "2", "e", "4", NoPiece), S("e", "7", "e", "5", NoPiece),
      S("b", "1", "c", "3", NoPiece), S("b", "8", "c", "6", NoPiece),
      S("d", "2", "d", "3", NoPiece), S("f", "8", "b", "4", NoPiece),
      S("g", "1", "e", "2", NoPiece), S("g", "8", "e", "7", NoPiece),
      S("a", "2", "a", "3", NoPiece), S("b", "4", "a", "5", NoPiece),
      S("b", "2", "b", "4", NoPiece), S("a", "5", "b", "6", NoPiece),
      S("c", "1", "e", "3", NoPiece), S("d", "7", "d", "6", NoPiece),
      S("e", "2", "g", "3", NoPiece), S("c", "8", "e", "6", NoPiece)>>

\* 1. f3 e5 2. Kf2 Bc5+ 3. Ke1 Qh4+ 4. g3
KingWalk ==
    <<S("f", "2", "f", "3", NoPiece), S("e", "7", "e", "5", NoPiece),
      S("e", "1", "f", "2", NoPiece), S("f", "8", "c", "5", NoPiece),
      S("f", "2", "e", "1", NoPiece), S("d", "8", "h", "4", NoPiece),
      S("g", "2", "g", "3", NoPiece)>>

\* 1. e4 d5 2. exd5 e6 3. dxe6 Bd6 4. exf7+ Kxf7 5. a4 Nf6 6. Ra3 Rf8 7. Re3
\* Nc6 8. Re8 Bg4 9. h4 Qd7 10. h5 a6 11. h6 b6 12. hxg7 Rd8 13. gxf8=Q+
RookBehindRook ==
    <<S("e", "2", "e", "4", NoPiece), S("d", "7", "d", "5", NoPiece),
      S("e", "4", "d", "5", NoPiece), S("e", "7", "e", "6", NoPiece),
      S("d", "5", "e", "6", NoPiece), S("f", "8", "d", "6", NoPiece),
      S("e", "6", "f", "7", NoPiece), S("e", "8", "f", "7", NoPiece),
      S("a", "2", "a", "4", NoPiece), S("g", "8", "f", "6", NoPiece),
      S("a", "1", "a", "3", NoPiece), S("h", "8", "f", "8", NoPiece),
      S("a", "3", "e", "3", NoPiece), S("b", "8", "c", "6", NoPiece),
      S("e", "3", "e", "8", NoPiece), S("c", "8", "g", "4", NoPiece),
      S("h", "2", "h", "4", NoPiece), S("d", "8", "d", "7", NoPiece),
      S("h", "4", "h", "5", NoPiece), S("a", "7", "a", "6", NoPiece),
      S("h", "5", "h", "6", NoPiece), S("b", "7", "b", "6", NoPiece),
      S("h", "6", "g", "7", NoPiece), S("a", "8", "d", "8", NoPiece),
      S("g", "7", "f", "8", Queen)>>

\* 1. a4 h5 2. h4 a5 3. Ra3 Rh6 4. Rhh3 Raa6 5. Rad3 Rad6
RookPair ==
    <<S("a", "2", "a", "4", NoPiece), S("h", "7", "h", "5", NoPiece),
      S("h", "2", "h", "4", NoPiece), S("a", "7", "a", "5", NoPiece),
      S("a", "1", "a", "3", NoPiece), S("h", "8", "h", "6", NoPiece),
      S("h", "1", "h", "3", NoPiece), S("a", "8", "a", "6", NoPiece),
      S("a", "3", "d", "3", NoPiece), S("a", "6", "d", "6", NoPiece)>>

\* 1. h4 g5 2. hxg5 h6 3. gxh6 a5 4. h7 Ra6 5. hxg8=R b5 6. Rxh8 Rh6 7. a4
\* Rh2 8. Ra3 b4
ThreeRooks ==
    <<S("h", "2", "h", "4", NoPiece), S("g", "7", "g", "5", NoPiece),
      S("h", "4", "g", "5", NoPiece), S("h", "7", "h", "6", NoPiece),
      S("g", "5", "h", "6", NoPiece), S("a", "7", "a", "5", NoPiece),
      S("h", "6", "h", "7", NoPiece), S("a", "8", "a", "6", NoPiece),
      S("h", "7", "g", "8", Rook), S("b", "7", "b", "5", NoPiece),
      S("g", "8", "h", "8", NoPiece), S("a", "6", "h", "6", NoPiece),
      S("a", "2", "a", "4", NoPiece), S("h", "6", "h", "2", NoPiece),
      S("a", "1", "a", "3", NoPiece), S("b", "5", "b", "4", NoPiece)>>

Games ==
    <<ItalianGame, LongCastles, EnPassants, BishopCheck, BishopShield,
      PawnPromotes, PinnedRook, PinnedKnight, KingWalk, RookBehindRook, RookPair,
      ThreeRooks>>

\* The longest move prefix replayed.
MaxPlies == 26

\* ------------------------------------------------------------ the replay
\* get_diagram: ChessGame::initial(), then play() on each move of the
\* prefix.  The prefix is the opening of one of the Games, followed or not
\* by one more move, any move the rules allow (probed).

NoMove == Mv(NoneSq, NoneSq, NoPiece)

\* No show() call since the last play() call.
NoView == [text |-> <<>>, before |-> initial]

\* Outside a run of convert.
NoBatch == [games |-> <<>>, k |-> 0, diagrams |-> <<>>, exited |-> FALSE]

\* No Square converted.
NoConv == [kind |-> "none"]

\* No document written.
NoDoc == [main |-> <<>>, rows |-> <<>>, comments |-> <<>>, game |-> <<>>]

\* The side whose move the next move of the list is.
Mover == IF Len(played) % 2 = 0 THEN White ELSE Black

Init ==
    /\ board = initial.board
    /\ white_king = initial.white_king
    /\ black_king = initial.black_king
    /\ turn = initial.turn
    /\ status = "ok"
    /\ played = <<>>
    /\ game \in 1 .. Len(Games)
    /\ probed = FALSE
    /\ env = [board |-> initial.board, rights |-> Corners, ep |-> NoneSq]
    /\ last = [mv |-> NoMove, from |-> NoneSq, before |-> initial]
    /\ view = NoView
    /\ batch = NoBatch
    /\ conv = NoConv
    /\ doc = NoDoc

\* The state after game.play(m) has returned o, m being the notation of
\* the move mv of the side to move.
Played(mv, m, o) ==
    /\ board' = o.self.board
    /\ white_king' = o.self.white_king
    /\ black_king' = o.self.black_king
    /\ turn' = o.self.turn
    /\ status' = IF o.panicked THEN "panic" ELSE "ok"
    /\ played' = Append(played, m)
    /\ env' = [board |-> After(env.board, mv),
               rights |-> EnvAfter(env.board, env, mv).rights,
               ep |-> EnvAfter(env.board, env, mv).ep]
    /\ last' = [mv |-> mv, from |-> o.from,
                before |-> Self(board, white_king, black_king, turn)]
    /\ view' = NoView

Replay(mv, m) == Played(mv, m, play(Self(board, white_king, black_king, turn), m))

\* game.play(game_move) for the move mv of the side to move.
Step(mv) == Replay(mv, Notation(env.board, env, Mover, mv))

PlayGame ==
    /\ status = "ok"
    /\ ~probed
    /\ Len(played) < MaxPlies
    /\ Len(played) < Len(Games[game])
    /\ Legal(env.board, env, Mover, Games[game][Len(played) + 1])
    /\ Step(Games[game][Len(played) + 1])
    /\ UNCHANGED <<game, probed, batch, conv, doc>>

PlayAny ==
    /\ status = "ok"
    /\ ~probed
    /\ Len(played) < MaxPlies
    /\ \E mv \in LegalMoves(env.board, env, Mover) : Step(mv)
    /\ probed' = TRUE
    /\ UNCHANGED <<game, batch, conv, doc>>

\* The next move of the game, given with its origin in full, as the last
\* move of the prefix.
PlayLong ==
    /\ status = "ok"
    /\ ~probed
    /\ Len(played) < MaxPlies
    /\ Len(played) < Len(Games[game])
    /\ Legal(env.board, env, Mover, Games[game][Len(played) + 1])
    /\ Replay(Games[game][Len(played) + 1],
              LongNotation(env.board, env, Mover, Games[game][Len(played) + 1]))
    /\ probed' = TRUE
    /\ UNCHANGED <<game, batch, conv, doc>>

\* The state after game.show() has returned s.
Showed(s) ==
    /\ view' = [text |-> s.text, before |-> Self(board, white_king, black_king, turn)]
    /\ board' = s.self.board
    /\ white_king' = s.self.white_king
    /\ black_king' = s.self.black_king
    /\ turn' = s.self.turn

\* game.show() on the game a prefix of one of the Games has led to, any
\* number of times.
Show ==
    /\ status = "ok"
    /\ ~probed
    /\ Showed(show(Self(board, white_king, black_king, turn)))
    /\ UNCHANGED <<status, played, game, probed, env, last, batch, conv, doc>>

Next == PlayGame \/ PlayAny \/ PlayLong \/ Show

Spec == Init /\ [][Next]_vars

\* -------------------------------------------------------------- the batch
\* convert: for each game of the file, in order, write_asciidoc replays
\* the game's moves on a fresh ChessGame (get_diagram) and renders it.
\* The unwrap of a play() that finds no origin panics: the panic unwinds
\* through convert and main and ends the process.

BatchSize == 2

\* The games a file is made of here: two that replay to their end, one
\* with a promotion, and one whose fourth move panics.
BatchGames == {3, 4, 6, 8}

\* get_initial_moves: the moves of a game that are replayed.
Prefix(i) == SubSeq(Games[i], 1, IF Len(Games[i]) < MaxPlies THEN Len(Games[i]) ELSE MaxPlies)

\* The loop of convert that stays on the same game.
SameGame(k) == k

\* convert, `for game in games`: the position of the next game.
NextGame(k) == k + 1

\* get_diagram that goes on with the ChessGame of the game before.
Reused(g) == g

\* get_diagram, `let mut game = ChessGame::initial();`, g being the
\* ChessGame of the game before.
Fresh(g) == initial

BatchInit ==
    /\ batch \in {[games |-> gs, k |-> 1, diagrams |-> [i \in 1 .. BatchSize |-> <<>>],
                    exited |-> FALSE] : gs \in [1 .. BatchSize -> BatchGames]}
    /\ game = batch.games[1]
    /\ board = initial.board
    /\ white_king = initial.white_king
    /\ black_king = initial.black_king
    /\ turn = initial.turn
    /\ status = "ok"
    /\ played = <<>>
    /\ probed = FALSE
    /\ env = [board |-> initial.board, rights |-> Corners, ep |-> NoneSq]
    /\ last = [mv |-> NoMove, from |-> NoneSq, before |-> initial]
    /\ view = NoView
    /\ conv = NoConv
    /\ doc = NoDoc

\* The ChessGame g of the next get_diagram call.
Started(g) ==
    /\ board' = g.board
    /\ white_king' = g.white_king
    /\ black_king' = g.black_king
    /\ turn' = g.turn

\* get_diagram returns game.show() once the moves are played; the diagram
\* goes into the document of the k-th game (<<>> as long as the game has
\* none) and convert moves on to the next game.
Render ==
    /\ status = "ok"
    /\ ~batch.exited
    /\ batch.k <= Len(batch.games)
    /\ Len(played) = Len(Prefix(game))
    /\ batch' = [batch EXCEPT !.k = NextGame(batch.k),
                              !.diagrams[batch.k] =
                                  show(Self(board, white_king, black_king, turn)).text]
    /\ game' = IF NextGame(batch.k) <= Len(batch.games) THEN batch.games[NextGame(batch.k)]
               ELSE game
    /\ Started(Fresh(Self(board, white_king, black_king, turn)))
    /\ played' = <<>>
    /\ env' = [board |-> initial.board, rights |-> Corners, ep |-> NoneSq]
    /\ last' = [mv |-> NoMove, from |-> NoneSq, before |-> initial]
    /\ UNCHANGED <<status, probed, view, conv, doc>>

\* The next move of the game being replayed.
BatchPlay ==
    /\ ~batch.exited
    /\ batch.k <= Len(batch.games)
    /\ status = "ok"
    /\ Len(played) < Len(Prefix(game))
    /\ Legal(env.board, env, Mover, Games[game][Len(played) + 1])
    /\ \E m \in {Notation(env.board, env, Mover, Games[game][Len(played) + 1])} :
           \E o \in {play(Self(board, white_king, black_king, turn), m)} :
               Played(Games[game][Len(played) + 1], m, o)
    /\ UNCHANGED <<game, probed, batch, conv, doc>>

\* The process ends: convert has returned after the last game, or a
\* play() has panicked.
Exit ==
    /\ ~batch.exited
    /\ status = "panic" \/ batch.k > Len(batch.games)
    /\ batch' = [batch EXCEPT !.exited = TRUE]
    /\ UNCHANGED <<board, white_king, black_king, turn, status, played, game, probed,
                   env, last, view, conv, doc>>

BatchNext == BatchPlay \/ Render \/ Exit

BatchSpec == BatchInit /\ [][BatchNext]_vars

\* The guard of BatchPlay: a move of the game is left to play.
Playable ==
    /\ ~batch.exited
    /\ batch.k <= Len(batch.games)
    /\ status = "ok"
    /\ Len(played) < Len(Prefix(game))

\* The process runs until it ends: it is one thread, which takes the step
\* it is at. For BatchPlay the weak fairness is written with the action's
\* guard in the place of ENABLED.
FairBatchSpec ==
    /\ BatchSpec
    /\ WF_vars(Render)
    /\ WF_vars(Exit)
    /\ (<>[]Playable => []<><<BatchPlay>>_vars)

\* ------------------------------------------------------- any pawn advance
\* The parser checks no move against the board: after a prefix of a game,
\* the next move of the file may be a non-capturing pawn move to any
\* square. Nothing is trusted to be played by it, so the trusted board is
\* left as it is.
PlayPawn ==
    /\ status = "ok"
    /\ ~probed
    /\ Len(played) < MaxPlies
    /\ \E to \in Squares :
           Replay(Mv(to, to, NoPiece),
                  BasicMove(<<"x", "x">>, FALSE, Pawn, NoPiece, SquareName(to)))
    /\ probed' = TRUE
    /\ UNCHANGED <<game, batch, conv, doc>>

PawnNext == PlayGame \/ PlayPawn

PawnSpec == Init /\ [][PawnNext]_vars

\* ------------------------------------------------------- any pawn capture
\* After a prefix of a game, the next move of the file may be a pawn
\* capture onto any square, with the file of its origin or with no origin
\* at all.
HintFiles == {"x"} \cup {Files[i] : i \in 1 .. Len(Files)}

PlayCapture ==
    /\ status = "ok"
    /\ ~probed
    /\ Len(played) < MaxPlies
    /\ \E to \in Squares : \E f \in HintFiles :
           Replay(Mv(to, to, NoPiece),
                  BasicMove(<<f, "x">>, TRUE, Pawn, NoPiece, SquareName(to)))
    /\ probed' = TRUE
    /\ UNCHANGED <<game, batch, conv, doc>>

CaptureNext == PlayGame \/ PlayCapture

CaptureSpec == Init /\ [][CaptureNext]_vars

\* ------------------------------------------------- any bishop, rook, queen
\* After a prefix of a game, the next move of the file may be a move of a
\* bishop, a rook or a queen to any square, without an origin or with this
\* file or this rank of it, whether or not that tells the pieces that
\* could make the move apart.
SliderHints == {<<"x", "x">>, <<"f", "x">>, <<"x", "1">>}

\* The games these moves are tried after: one with the two rooks of each
\* side on an empty row, one with three rooks of a side.
SliderGames == {11, 12}

SliderInit == Init /\ game \in SliderGames

PlaySlider ==
    /\ status = "ok"
    /\ ~probed
    /\ Len(played) < MaxPlies
    /\ \E to \in Squares : \E piece \in {Bishop, Rook, Queen} : \E from \in SliderHints :
           Replay(Mv(to, to, NoPiece),
                  BasicMove(from, At(env.board, to) # None, piece, NoPiece, SquareName(to)))
    /\ probed' = TRUE
    /\ UNCHANGED <<game, batch, conv, doc>>

SliderNext == PlayGame \/ PlaySlider

SliderSpec == SliderInit /\ [][SliderNext]_vars

\* ------------------------------------------------------- any two characters
\* The conversions as functions of the two characters they read, the
\* `_ => unreachable!()` arm of the match on the column included: it
\* panics. The rank character goes through no match.
FileChars == {Files[i] : i \in 1 .. Len(Files)} \cup {"x", "i"}
RankChars == {Digits[i] : i \in 1 .. 9} \cup {"x"}

Converted(panicked, value) == [panicked |-> panicked, value |-> value]

maybe_indexes(square) ==
    IF square[1] \in {Files[i] : i \in 1 .. Len(Files)} \cup {"x"}
    THEN Converted(FALSE, square_to_maybe_indexes(square))
    ELSE Converted(TRUE, <<>>)

indexes(square) ==
    IF square[1] \in {Files[i] : i \in 1 .. Len(Files)}
    THEN Converted(FALSE, square_to_indexes(square))
    ELSE Converted(TRUE, <<>>)

ConvertMaybe ==
    /\ \E square \in FileChars \X RankChars :
           conv' = [kind |-> "maybe", square |-> square, out |-> maybe_indexes(square)]
    /\ UNCHANGED <<board, white_king, black_king, turn, status, played, game, probed,
                   env, last, view, batch, doc>>

\* The full conversion reads a rank digit: `8 - (line as usize - '0' as
\* usize)` of the character x is outside of what is converted here.
ConvertFull ==
    /\ \E square \in FileChars \X (RankChars \ {"x"}) :
           conv' = [kind |-> "full", square |-> square, out |-> indexes(square)]
    /\ UNCHANGED <<board, white_king, black_king, turn, status, played, game, probed,
                   env, last, view, batch, doc>>

SquareInit == Init /\ game = 1

SquareNext == ConvertMaybe \/ ConvertFull

SquareSpec == SquareInit /\ [][SquareNext]_vars

\* ------------------------------------------------------------ the footnotes
\* The document of one game, as write_asciidoc (src/src/main.rs) composes
\* it: the moves before the first move that has variations, then one table
\* row for the rest of the main line and one per variation of that move,
\* then the comment list. A move is written as the move and the footnote
\* markers that follow it. A comment is told from the others by the number
\* of the move that carries it.
MOVES_TO_SHOW == 9

RowLen == 20
InitialLen == 2
MaxComments == 2

NoComment == 0

GameMove(white, comment, variations) ==
    [white |-> white, comment |-> comment, variations |-> variations]

is_white_move(game_move) == game_move.white

\* An entry of the comment list: the comment of a move, or the moves of a
\* variation past the ones its row shows.
Comment(id) == [kind |-> "comment", id |-> id, strings |-> <<>>]
Variation(strings) == [kind |-> "variation", id |-> NoComment, strings |-> strings]

move_to_string(game_move, comments) ==
    IF game_move.comment # NoComment
    THEN [string |-> [comment |-> game_move.comment,
                      markers |-> <<[k |-> Len(comments) + 1, of |-> Comment(game_move.comment)]>>],
          comments |-> Append(comments, Comment(game_move.comment))]
    ELSE [string |-> [comment |-> NoComment, markers |-> <<>>],
          comments |-> comments]

RECURSIVE moves_to_strings(_, _, _)
moves_to_strings(moves, comments, strings) ==
    IF moves = <<>>
    THEN [strings |-> strings, comments |-> comments]
    ELSE moves_to_strings(Tail(moves), move_to_string(Head(moves), comments).comments,
                          Append(strings, move_to_string(Head(moves), comments).string))

\* The number of moves the loop of extract_variations takes from the
\* iterator: it breaks after the move that brings move_num to MOVES_TO_SHOW.
FirstMoves(moves) ==
    LET stops == {n \in 1 .. Len(moves) :
                     Cardinality({i \in 1 .. n : ~is_white_move(moves[i])}) >= MOVES_TO_SHOW}
    IN  IF stops = {} THEN Len(moves) ELSE CHOOSE n \in stops : \A m \in stops : n <= m

\* The moves left in the iterator, each written against a list of its own.
Overflow(moves, n) ==
    [i \in 1 .. Len(moves) - n |-> move_to_string(moves[n + i], <<>>).string]

Row(first, variation) ==
    IF variation = <<>>
    THEN [first |-> first.strings, variation |-> variation, comments |-> first.comments]
    ELSE [first |-> [first.strings EXCEPT ![Len(first.strings)].markers =
                         Append(@, [k |-> Len(first.comments) + 1,
                                    of |-> Variation(variation)])],
          variation |-> variation,
          comments |-> Append(first.comments, Variation(variation))]

extract_variations(moves, comments) ==
    Row(moves_to_strings(SubSeq(moves, 1, FirstMoves(moves)), comments, <<>>),
        Overflow(moves, FirstMoves(moves)))

RECURSIVE Rows(_, _, _)
Rows(variations, comments, rows) ==
    IF variations = <<>>
    THEN [rows |-> rows, comments |-> comments]
    ELSE Rows(Tail(variations), extract_variations(Head(variations), comments).comments,
              Append(rows, extract_variations(Head(variations), comments)))

get_initial_moves(moves) ==
    LET stops == {n \in 1 .. Len(moves) : moves[n].variations # <<>>}
    IN  IF stops = {} THEN moves
        ELSE SubSeq(moves, 1, (CHOOSE n \in stops : \A m \in stops : n <= m) - 1)

get_variations(moves, start_move_num, comments) ==
    IF start_move_num < Len(moves) /\ moves[start_move_num + 1].variations # <<>>
    THEN Rows(<<SubSeq(moves, start_move_num + 1, Len(moves))>>
                  \o moves[start_move_num + 1].variations, comments, <<>>)
    ELSE [rows |-> <<>>, comments |-> comments]

Document(moves, main, variations) ==
    [main |-> main.strings, rows |-> variations.rows, comments |-> variations.comments,
     game |-> moves]

write_asciidoc(moves) ==
    Document(moves, moves_to_strings(get_initial_moves(moves), <<>>, <<>>),
             get_variations(moves, Len(get_initial_moves(moves)),
                            moves_to_strings(get_initial_moves(moves), <<>>, <<>>).comments))

\* The games written: InitialLen moves, then a move with one variation, both
\* that variation and the rest of the main line RowLen moves long; White
\* moves first and the colours alternate. commented is the set of the moves
\* that carry a comment, counted along the main line and then along the
\* variation.
RECURSIVE AtMost(_, _)
AtMost(plies, n) ==
    IF n = 0 THEN {{}}
    ELSE AtMost(plies, n - 1) \cup {c \cup {p} : c \in AtMost(plies, n - 1), p \in plies}

Commented == AtMost(1 .. InitialLen + 2 * RowLen, MaxComments)

Ply(n, white, commented, variations) ==
    GameMove(white, IF n \in commented THEN n ELSE NoComment, variations)

VariationMoves(commented) ==
    [i \in 1 .. RowLen |->
        Ply(InitialLen + RowLen + i, (InitialLen + i) % 2 = 1, commented, <<>>)]

GameMoves(commented) ==
    [n \in 1 .. InitialLen + RowLen |->
        Ply(n, n % 2 = 1, commented,
            IF n = InitialLen + 1 THEN <<VariationMoves(commented)>> ELSE <<>>)]

\* One document is written for one game.
WriteAsciidoc ==
    /\ doc = NoDoc
    /\ \E commented \in Commented : doc' = write_asciidoc(GameMoves(commented))
    /\ UNCHANGED <<board, white_king, black_king, turn, status, played, game, probed,
                   env, last, view, batch, conv>>

FootnoteInit == Init /\ game = 1

FootnoteNext == WriteAsciidoc

FootnoteSpec == FootnoteInit /\ [][FootnoteNext]_vars

\* ------------------------------------------------------------ properties

Now == Self(board, white_king, black_king, turn)

\* The move of the last play() call, and the game before that call.
LastMove == played[Len(played)]
Before == last.before
Completed == played # <<>> /\ status = "ok"
CompletedBasic == Completed /\ LastMove.kind = "BasicMove"
CompletedCastle == Completed /\ LastMove.kind # "BasicMove"
LastTo == square_to_indexes(LastMove.to)

Occupied(b) == Cardinality({sq \in Squares : At(b, sq) # None})

\* The squares, other than those of `but`, on which two boards differ.
Changed(b1, b2, but) == {sq \in Squares \ but : At(b1, sq) # At(b2, sq)}

\* C1: after construction and after every play() call of the replay of a
\* legal game, each cached king square is a square of the board and holds
\* the king of its color.
C1_KingLocation ==
    /\ white_king \in Squares
    /\ black_king \in Squares
    /\ At(board, white_king) = Some(White, King)
    /\ At(board, black_king) = Some(Black, King)

\* C2: every legal move, written with the origin hint standard notation
\* gives it, is resolved by play() without a failure and to the square the
\* moving piece stands on.
C2_OriginResolved ==
    played # <<>> =>
        /\ status = "ok"
        /\ LastMove.kind = "BasicMove" => last.from = last.mv.from

\* C3: the side to move is White after an even number of completed play()
\* calls and Black after an odd number; a completed call flips it once and
\* applies the move with the color that was to move before the call.
C3_TurnAlternates ==
    /\ turn = IF (Len(played) - (IF status = "panic" THEN 1 ELSE 0)) % 2 = 0
              THEN White ELSE Black
    /\ Completed => turn = opposite(Before.turn)
    /\ CompletedBasic => ColorAt(board, LastTo) = Before.turn
    /\ CompletedCastle =>
           At(board, KingOf(Now, Before.turn)) = Some(Before.turn, King)
           /\ KingOf(Now, Before.turn)[2] = CastleLine(Before.turn)
           /\ KingOf(Now, Before.turn) # KingOf(Before, Before.turn)

\* Black has just castled, so it is White's turn.
C3_Witness ==
    /\ CompletedCastle
    /\ Before.turn = Black
    /\ turn = White

\* C4: after a basic move the origin is empty, the destination holds a
\* piece of the mover, and no other square has changed, but for an en
\* passant capture, which empties one more square, one that held a pawn of
\* the opponent; the number of occupied squares drops by one on a capture
\* and stays the same on any other move.
C4_Material ==
    /\ CompletedBasic =>
           LET extra == Changed(Before.board, board, {last.from, LastTo})
           IN  /\ At(board, last.from) = None
               /\ At(board, LastTo) # None
               /\ ColorAt(board, LastTo) = Before.turn
               /\ IF LastMove.piece = Pawn /\ LastMove.is_capture /\ At(Before.board, LastTo) = None
                  THEN \E sq \in Squares :
                           /\ extra = {sq}
                           /\ At(Before.board, sq) = Some(opposite(Before.turn), Pawn)
                           /\ At(board, sq) = None
                  ELSE extra = {}
               /\ Occupied(board) =
                      Occupied(Before.board) - (IF LastMove.is_capture THEN 1 ELSE 0)
    /\ CompletedCastle => Occupied(board) = Occupied(Before.board)
    /\ status = "panic" => Occupied(board) = Occupied(Before.board)

\* The position the rules of chess start from, row by row.
StandardRow(y) ==
    LET officers == <<Rook, Knight, Bishop, Queen, King, Bishop, Knight, Rook>>
    IN  [x \in Idx |->
            CASE y = 0 -> Some(Black, officers[x + 1])
              [] y = 1 -> Some(Black, Pawn)
              [] y = 6 -> Some(White, Pawn)
              [] y = 7 -> Some(White, officers[x + 1])
              [] OTHER -> None]

\* C5: the game ChessGame::initial() returns is the standard starting
\* position, White to move, with the kings cached on (4, 0) and (4, 7).
C5_InitialPosition ==
    played = <<>> =>
        /\ board = [y \in Idx |-> StandardRow(y)]
        /\ turn = White
        /\ black_king = <<4, 0>>
        /\ white_king = <<4, 7>>

\* The game as constructed, before any move.
C5_Witness ==
    /\ played = <<>>
    /\ status = "ok"
    /\ Occupied(board) = 32

\* A piece of the opponent of `color`, bishop, rook or queen, gets a line
\* to color's king when the square sq is vacated.
OpensLine(b, color, sq) ==
    \E a \in Squares :
        /\ ColorAt(b, a) = opposite(color)
        /\ PieceAt(b, a) \in {Bishop, Rook, Queen}
        /\ ~Attacks(b, a, KingSquare(b, color))
        /\ Attacks(SetSq(b, sq[1], sq[2], None), a, KingSquare(b, color))

\* C6: with two rooks of the mover able to reach the destination, a move
\* hinted by file alone is resolved to the rook on that file, and a move
\* without hint, when exactly one of the two rooks is not pinned, to the
\* unpinned rook.
C6_RookDisambiguation ==
    (played # <<>> /\ LastMove.kind = "BasicMove" /\ LastMove.piece = Rook) =>
        LET b == Before.board
            c == Before.turn
            hint == square_to_maybe_indexes(LastMove.from)
            rooks == {sq \in Squares : At(b, sq) = Some(c, Rook) /\ Attacks(b, sq, LastTo)}
            free == {sq \in rooks : ~OpensLine(b, c, sq)}
        IN  Cardinality(rooks) = 2 =>
                /\ (hint[1] # NoneIdx /\ hint[2] = NoneIdx) =>
                       status = "ok" /\ last.from \in rooks /\ last.from[1] = hint[1]
                /\ (hint[1] = NoneIdx /\ hint[2] = NoneIdx /\ Cardinality(free) = 1) =>
                       status = "ok" /\ last.from \in free

e4 == BasicMove(<<"x", "x">>, FALSE, Pawn, NoPiece, <<"e", "4">>)
e5 == BasicMove(<<"x", "x">>, FALSE, Pawn, NoPiece, <<"e", "5">>)
Nf3 == BasicMove(<<"x", "x">>, FALSE, Knight, NoPiece, <<"f", "3">>)
Nc6 == BasicMove(<<"x", "x">>, FALSE, Knight, NoPiece, <<"c", "6">>)

\* C7: each play() of the replay of e4 e5 Nf3 Nc6 completes, and the
\* replay ends with a White pawn on e4, a White knight on f3, a Black pawn
\* on e5, a Black knight on c6, the squares e2, g1, e7 and b8 empty, every
\* other square as at the start, and White to move.
C7_FourMoves ==
    /\ \A n \in 1 .. 4 : played = SubSeq(<<e4, e5, Nf3, Nc6>>, 1, n) => status = "ok"
    /\ played = <<e4, e5, Nf3, Nc6>> =>
        /\ turn = White
        /\ \A file \in 1 .. 8 : \A rank \in 2 .. 9 :
               LET name == <<Files[file], Digits[rank]>>
                   sq == square_to_indexes(name)
               IN  At(board, sq) =
                       CASE name = <<"e", "4">> -> Some(White, Pawn)
                         [] name = <<"f", "3">> -> Some(White, Knight)
                         [] name = <<"e", "5">> -> Some(Black, Pawn)
                         [] name = <<"c", "6">> -> Some(Black, Knight)
                         [] name \in {<<"e", "2">>, <<"g", "1">>, <<"e", "7">>, <<"b", "8">>} -> None
                         [] OTHER -> At(initial.board, sq)

\* The four moves have been replayed.
C7_Witness ==
    /\ played = <<e4, e5, Nf3, Nc6>>
    /\ status = "ok"
    /\ At(board, <<2, 2>>) = Some(Black, Knight)

\* C8: a castle puts, on the mover's back rank, the king on file g and the
\* rook on file f (kingside) or the king on file c and the rook on file d
\* (queenside), empties file e and the rook's corner, sets the mover's
\* cached king square to the king's new square, and changes no other
\* square and not the opponent's cached king square.
C8_Castle ==
    CompletedCastle =>
        LET c == Before.turn
            row == IF c = White THEN 7 ELSE 0
            kingside == LastMove.kind = "CastleKingside"
            king_x == IF kingside THEN 6 ELSE 2
            rook_x == IF kingside THEN 5 ELSE 3
            corner == IF kingside THEN 7 ELSE 0
        IN  /\ At(board, <<king_x, row>>) = Some(c, King)
            /\ At(board, <<rook_x, row>>) = Some(c, Rook)
            /\ At(board, <<4, row>>) = None
            /\ At(board, <<corner, row>>) = None
            /\ Changed(Before.board, board,
                       {<<king_x, row>>, <<rook_x, row>>, <<4, row>>, <<corner, row>>}) = {}
            /\ KingOf(Now, c) = <<king_x, row>>
            /\ KingOf(Now, opposite(c)) = KingOf(Before, opposite(c))
            /\ (c = White /\ kingside) => white_king = <<6, 7>>

\* Black has castled queenside after White did.
C8_Witness ==
    /\ CompletedCastle
    /\ LastMove.kind = "CastleQueenside"
    /\ Before.turn = Black
    /\ white_king = <<2, 7>>
    /\ At(Before.board, <<0, 0>>) = Some(Black, Rook)

\* The row behind row y as the pawns of `color` see it.
Behind(color, y) == IF color = White THEN y + 1 ELSE y - 1

\* C9: a pawn capture onto a square that was empty also empties the square
\* of the destination's file one row behind the destination (the row below
\* for White, the row above for Black) and changes nothing else; any other
\* basic move changes no square but its origin and its destination.
C9_EnPassant ==
    CompletedBasic =>
        IF LastMove.piece = Pawn /\ LastMove.is_capture /\ At(Before.board, LastTo) = None
        THEN LET behind == <<LastTo[1], Behind(Before.turn, LastTo[2])>>
             IN  /\ At(board, behind) = None
                 /\ Changed(Before.board, board, {last.from, LastTo, behind}) = {}
        ELSE Changed(Before.board, board, {last.from, LastTo}) = {}

\* A pawn has captured onto an empty square, and the pawn behind is gone.
C9_Witness ==
    /\ CompletedBasic
    /\ LastMove.piece = Pawn
    /\ LastMove.is_capture
    /\ At(Before.board, LastTo) = None
    /\ At(Before.board, <<LastTo[1], Behind(Before.turn, LastTo[2])>>)
           = Some(opposite(Before.turn), Pawn)

\* C10: piece_can_move returns with the board, the cached king squares and
\* the side to move as they were at the call, for every square and color,
\* whatever it answers; a search that fails has changed nothing.
C10_PinFilterRestores ==
    /\ \A x \in Idx : \A y \in Idx : \A color \in Color :
           piece_can_move(Now, x, y, color).self = Now
    /\ status = "panic" => Now = Before

\* The filter answers no for an occupied square and yes for another one.
C10_Witness ==
    /\ status = "ok"
    /\ \E sq \in Squares :
           At(board, sq) # None /\ ~piece_can_move(Now, sq[1], sq[2], turn).can_move
    /\ \E sq \in Squares :
           At(board, sq) # None /\ piece_can_move(Now, sq[1], sq[2], turn).can_move

\* C11: show() leaves the board, the cached king squares and the side to
\* move as they were, a further show() with no play() in between returns
\* the same text, and the play() that follows a show() gives what it gives
\* without the show().
C11_ShowReadOnly ==
    view # NoView =>
        /\ view.before = Now
        /\ view.text = show(Now).text
        /\ show(Now).self = Now
        /\ (Len(played) < Len(Games[game]) /\ Len(played) < MaxPlies) =>
               play(Now, Notation(env.board, env, Mover, Games[game][Len(played) + 1]))
                   = play(view.before, Notation(env.board, env, Mover,
                                                Games[game][Len(played) + 1]))

\* show() has been called after a move, with Black to move.
C11_Witness ==
    /\ view # NoView
    /\ played # <<>>
    /\ turn = Black
    /\ view.text[2].icon = "icon:circle[size=70%]"
    /\ Len(view.text) = 10

\* The last move gave its origin in full.
FullHint ==
    /\ played # <<>>
    /\ LastMove.kind = "BasicMove"
    /\ square_to_maybe_indexes(LastMove.from)[1] # NoneIdx
    /\ square_to_maybe_indexes(LastMove.from)[2] # NoneIdx

\* C12: a basic move of any piece whose origin is given in full, file and
\* rank, is played from the square given: play() completes, the origin it
\* used is that square, and that square is empty afterwards.
C12_FullHint ==
    FullHint =>
        /\ status = "ok"
        /\ last.from = square_to_indexes(LastMove.from)
        /\ At(board, square_to_indexes(LastMove.from)) = None

\* C13: after a basic move the destination holds the mover's color with
\* the piece the move promotes to, if it names one, and with the type of
\* the piece moved otherwise; the origin play() took the piece from is
\* empty in both cases.
C13_Promotion ==
    CompletedBasic =>
        /\ At(board, LastTo) =
               Some(Before.turn, IF LastMove.promoted_to # NoPiece THEN LastMove.promoted_to
                                 ELSE LastMove.piece)
        /\ At(board, last.from) = None

\* A pawn has been promoted to a piece other than a queen.
C13_Witness ==
    /\ CompletedBasic
    /\ LastMove.piece = Pawn
    /\ LastMove.promoted_to \in {Rook, Bishop, Knight}
    /\ At(board, LastTo) = Some(Before.turn, LastMove.promoted_to)
    /\ At(Before.board, last.from) = Some(Before.turn, Pawn)

\* C14: a play() call that fails has written nothing: the board, both
\* cached king squares and the side to move are as before the call.  A
\* call that completes has made all the writes of its move: the origin
\* emptied and the destination filled (or the four squares of a castle
\* set), the mover's cached king square following a king's move and no
\* other, and the side to move flipped.
C14_AtomicApply ==
    /\ status = "panic" => Now = Before /\ last.from = NoneSq
    /\ Completed =>
           /\ turn = opposite(Before.turn)
           /\ KingOf(Now, turn) = KingOf(Before, turn)
    /\ CompletedBasic =>
           /\ At(board, last.from) = None
           /\ ColorAt(board, LastTo) = Before.turn
           /\ KingOf(Now, Before.turn) =
                  IF LastMove.piece = King THEN LastTo ELSE KingOf(Before, Before.turn)
    /\ CompletedCastle =>
           /\ KingOf(Now, Before.turn) # KingOf(Before, Before.turn)
           /\ At(board, KingOf(Now, Before.turn)) = Some(Before.turn, King)
           /\ At(board, <<4, CastleLine(Before.turn)>>) = None
           /\ Cardinality(Changed(Before.board, board, {})) = 4

\* A play() call has failed on a move that is not the first of its game.
C14_Witness ==
    /\ status = "panic"
    /\ Len(played) > 1
    /\ Now = Before
    /\ Occupied(board) = 32

\* get_diagram as a function of the moves of one game: the replay from a
\* fresh ChessGame, then show(); panicked when a play() finds no origin.
RECURSIVE get_diagram_from(_, _, _, _)

DiagramAfter(o, e, moves, i) ==
    IF o.panicked THEN [panicked |-> TRUE, text |-> <<>>, self |-> o.self]
    ELSE get_diagram_from(o.self, e, moves, i + 1)

get_diagram_from(g, e, moves, i) ==
    IF i > Len(moves) THEN [panicked |-> FALSE, text |-> show(g).text, self |-> show(g).self]
    ELSE DiagramAfter(play(g, Notation(e.board, e, IF i % 2 = 1 THEN White ELSE Black,
                                       moves[i])),
                      [board |-> After(e.board, moves[i]),
                       rights |-> EnvAfter(e.board, e, moves[i]).rights,
                       ep |-> EnvAfter(e.board, e, moves[i]).ep],
                      moves, i)

get_diagram(moves) ==
    get_diagram_from(initial, [board |-> initial.board, rights |-> Corners, ep |-> NoneSq],
                     moves, 1)

\* C15: when the process has ended, every game of the batch whose own
\* moves replay without a failure has its diagram: a move that cannot be
\* resolved fails the replay of its own game only.
C15_ErrorIsolation ==
    batch.exited =>
        \A i \in 1 .. Len(batch.games) :
            ~get_diagram(Prefix(batch.games[i])).panicked => batch.diagrams[i] # <<>>

\* find_piece!: the squares the while loop of one direction can visit,
\* (x, y) being the first one: is_valid ends the loop at the edge.
RECURSIVE Walk(_, _, _, _)

Walk(x, y, dx, dy) ==
    IF ~is_valid(x, y) THEN <<>> ELSE <<<<x, y>>>> \o Walk(x + dx, y + dy, dx, dy)

Directions(deltas) == {deltas[i] : i \in 1 .. Len(deltas)}

SliderDeltas(piece) ==
    IF piece = Bishop THEN BishopDeltas ELSE IF piece = Rook THEN RookDeltas ELSE QueenDeltas

\* The walks are bounded: every walk of a direction has at most 7
\* squares, the origin a search of a bishop, rook or queen returns is one
\* of them, and a game's replay makes no more play() calls than the game
\* has moves.
Bounded ==
    /\ \A sq \in Squares : \A d \in Directions(QueenDeltas) :
           Len(Walk(sq[1] + d[1], sq[2] + d[2], d[1], d[2])) <= 7
    /\ CompletedBasic /\ LastMove.piece \in {Bishop, Rook, Queen} =>
           \E d \in Directions(SliderDeltas(LastMove.piece)) :
               \E n \in 1 .. Len(Walk(LastTo[1] + d[1], LastTo[2] + d[2], d[1], d[2])) :
                   last.from = Walk(LastTo[1] + d[1], LastTo[2] + d[2], d[1], d[2])[n]
    /\ Len(played) <= Len(Prefix(game))

\* C16: the walks are bounded in every state and the process ends: every
\* replay, and every play() of it, terminates, by a diagram or by a
\* failure.
C16_Terminates == []Bounded /\ <>batch.exited

\* Both games of a batch were replayed to their last move and rendered,
\* and the process has ended.
C16_Witness ==
    /\ batch.exited
    /\ status = "ok"
    /\ \A i \in 1 .. Len(batch.games) : Len(batch.diagrams[i]) = 10
    /\ batch.k = Len(batch.games) + 1

\* C17: whatever was replayed before it, the replay of a game is the one
\* get_diagram makes of the game's own moves from a fresh ChessGame: it
\* fails only where that one fails, it ends on the same board and side to
\* move, its diagram is the same text, and two games of the same moves
\* have the same diagram.
C17_Independent ==
    /\ status = "panic" => get_diagram(Prefix(game)).panicked
    /\ status = "ok" /\ batch.k <= Len(batch.games) /\ Len(played) = Len(Prefix(game)) =>
           /\ ~get_diagram(Prefix(game)).panicked
           /\ Now = get_diagram(Prefix(game)).self
    /\ played = <<>> =>
           \A i \in 1 .. Len(batch.games) :
               batch.diagrams[i] # <<>> =>
                   batch.diagrams[i] = get_diagram(Prefix(batch.games[i])).text
    /\ \A i, j \in 1 .. Len(batch.games) :
           /\ batch.games[i] = batch.games[j]
           /\ batch.diagrams[i] # <<>>
           /\ batch.diagrams[j] # <<>>
           => batch.diagrams[i] = batch.diagrams[j]

\* The second game of a batch was replayed to its end after a different
\* first game, and its diagram differs from the first one's.
C17_Witness ==
    /\ batch.k = 3
    /\ batch.games[1] # batch.games[2]
    /\ Len(batch.diagrams[2]) = 10
    /\ batch.diagrams[1] # batch.diagrams[2]

\* C18: the origin that the walk of find_bishop, find_rook or find_queen
\* returns is on a line with the target, and every square between the
\* two was empty when the move was played: the first occupied square that
\* is not the origin ends the walk.
C18_WalkBlocked ==
    CompletedBasic /\ LastMove.piece \in {Bishop, Rook, Queen} /\ ~FullHint =>
        /\ Aligned(last.from, LastTo)
        /\ ClearLine(Before.board, last.from, LastTo)

\* On the board b with the square sq vacated, some bishop or queen of the
\* other color on a diagonal of the square king, or some rook or queen of
\* the other color on its row or column, has only empty squares between
\* itself and king.
Exposed(b, king, color, sq) ==
    \E from \in Squares \ {sq, king} :
        /\ At(b, from) # None
        /\ ColorAt(b, from) = opposite(color)
        /\ \/ /\ PieceAt(b, from) \in {Bishop, Queen}
              /\ Abs(from[1] - king[1]) = Abs(from[2] - king[2])
           \/ /\ PieceAt(b, from) \in {Rook, Queen}
              /\ from[1] = king[1] \/ from[2] = king[2]
        /\ \A mid \in Between(from, king) \ {sq} : At(b, mid) = None

\* C19: for the side to move, piece_can_move is true on every empty
\* square, and on an occupied square it is false exactly when vacating
\* the square leaves the king of that side exposed to a slider.
C19_PinVerdict ==
    \A sq \in Squares :
        piece_can_move(Now, sq[1], sq[2], turn).can_move
            <=> (At(board, sq) = None \/ ~Exposed(board, KingOf(Now, turn), turn, sq))

\* The origin of a non-capturing pawn move of color to the square `to` on
\* the board b: one row behind if a pawn of color is there; else two rows
\* behind if the square one row behind is empty and a pawn of color is two
\* rows behind; else none.
PawnOrigin(b, color, to) ==
    IF ~coord_valid(Behind(color, to[2])) THEN NoneSq
    ELSE IF At(b, <<to[1], Behind(color, to[2])>>) = Some(color, Pawn)
    THEN <<to[1], Behind(color, to[2])>>
    ELSE IF /\ coord_valid(Behind(color, Behind(color, to[2])))
            /\ At(b, <<to[1], Behind(color, to[2])>>) = None
            /\ At(b, <<to[1], Behind(color, Behind(color, to[2]))>>) = Some(color, Pawn)
    THEN <<to[1], Behind(color, Behind(color, to[2]))>>
    ELSE NoneSq

\* C20: the origin play() resolves for a non-capturing pawn move is the
\* square one row behind the target when it holds a pawn of the mover,
\* else the square two rows behind when the first is empty and the second
\* holds a pawn of the mover; in every other case no origin is returned.
C20_PawnOrigin ==
    /\ played # <<>>
    /\ LastMove.kind = "BasicMove"
    /\ LastMove.piece = Pawn
    /\ ~LastMove.is_capture
    => last.from = PawnOrigin(Before.board, Before.turn, LastTo)

\* The first of the squares sqs, in their order, that is on the board and
\* holds a pawn of color on the board b; none if there is none.
RECURSIVE FirstPawn(_, _, _, _)

FirstPawn(b, color, sqs, i) ==
    IF i > Len(sqs) THEN NoneSq
    ELSE IF is_valid(sqs[i][1], sqs[i][2]) /\ At(b, sqs[i]) = Some(color, Pawn) THEN sqs[i]
    ELSE FirstPawn(b, color, sqs, i + 1)

\* The origin of a pawn capture of color onto `to`, maybe_from_x being
\* the hinted file: the square of that file one row behind, or without a
\* hint the first of the squares left and right of it.
CaptureOrigin(b, color, to, maybe_from_x) ==
    IF maybe_from_x # NoneIdx
    THEN FirstPawn(b, color, <<<<maybe_from_x, Behind(color, to[2])>>>>, 1)
    ELSE FirstPawn(b, color, <<<<to[1] - 1, Behind(color, to[2])>>,
                               <<to[1] + 1, Behind(color, to[2])>>>>, 1)

\* C21: the origin play() resolves for a pawn capture is the square of
\* the hinted file one row behind the target, or with no hint the first
\* of the squares left and right of it, in that order, that is on the
\* board, provided it holds a pawn of the mover; a square holding a pawn
\* of the other side is never the origin.
C21_CaptureOrigin ==
    /\ played # <<>>
    /\ LastMove.kind = "BasicMove"
    /\ LastMove.piece = Pawn
    /\ LastMove.is_capture
    => /\ last.from = CaptureOrigin(Before.board, Before.turn, LastTo,
                                    square_to_maybe_indexes(LastMove.from)[1])
       /\ last.from # NoneSq => At(Before.board, last.from) # Some(opposite(Before.turn), Pawn)

\* The squares find_knight may return for a move of color to the square
\* `to` of the game g: on the board, at a knight's offset from `to`,
\* holding a knight of color, agreeing with the hint, and passing the pin
\* filter.
KnightCandidates(g, color, to, maybe_from_x, maybe_from_y) ==
    {sq \in Squares :
        /\ <<sq[1] - to[1], sq[2] - to[2]>> \in Directions(KnightDeltas)
        /\ At(g.board, sq) = Some(color, Knight)
        /\ HintAgrees(sq[1], sq[2], maybe_from_x, maybe_from_y)
        /\ piece_can_move(g, sq[1], sq[2], color).can_move}

\* C22: when the origin of a knight move is not given in full, play()
\* resolves it to one of the knight's candidates of the move, and fails
\* exactly when the move has no candidate.
C22_KnightSearch ==
    /\ played # <<>>
    /\ LastMove.kind = "BasicMove"
    /\ LastMove.piece = Knight
    /\ ~FullHint
    => /\ status = "ok" =>
              last.from \in KnightCandidates(Before, Before.turn, LastTo,
                                             square_to_maybe_indexes(LastMove.from)[1],
                                             square_to_maybe_indexes(LastMove.from)[2])
       /\ status = "panic" <=>
              KnightCandidates(Before, Before.turn, LastTo,
                               square_to_maybe_indexes(LastMove.from)[1],
                               square_to_maybe_indexes(LastMove.from)[2]) = {}

\* A knight move was resolved with the file of its origin given, two
\* knights of the mover standing at a knight's offset from the target.
C22_Witness ==
    /\ CompletedBasic
    /\ LastMove.piece = Knight
    /\ LastMove.from[1] # "x"
    /\ LastMove.from[2] = "x"
    /\ Cardinality({sq \in Squares :
           /\ <<sq[1] - LastTo[1], sq[2] - LastTo[2]>> \in Directions(KnightDeltas)
           /\ At(Before.board, sq) = Some(Before.turn, Knight)}) = 2
    /\ At(board, LastTo) = Some(Before.turn, Knight)

\* C23: a basic move of the king, with or without a hint, is resolved,
\* and its origin is a neighbour of the destination that held the mover's
\* king.
C23_KingSearch ==
    /\ played # <<>>
    /\ LastMove.kind = "BasicMove"
    /\ LastMove.piece = King
    => /\ status = "ok"
       /\ <<last.from[1] - LastTo[1], last.from[2] - LastTo[2]>> \in Directions(KingDeltas)
       /\ At(Before.board, last.from) = Some(Before.turn, King)

\* C24: a basic King move sets the cached king square of the mover to the
\* destination and leaves the one of the opponent as it was; a basic move
\* of any other piece, a play() that fails and a show() leave both as
\* they were.
C24_KingCacheFrame ==
    /\ CompletedBasic /\ LastMove.piece = King =>
           /\ KingOf(Now, Before.turn) = LastTo
           /\ KingOf(Now, opposite(Before.turn)) = KingOf(Before, opposite(Before.turn))
    /\ CompletedBasic /\ LastMove.piece # King =>
           /\ white_king = Before.white_king
           /\ black_king = Before.black_king
    /\ status = "panic" =>
           /\ white_king = Before.white_king
           /\ black_king = Before.black_king
    /\ view # NoView =>
           /\ white_king = view.before.white_king
           /\ black_king = view.before.black_king

\* Black's king has made a basic move, a capture, and the cache of Black
\* has followed it while White's stayed on e1.
C24_Witness ==
    /\ CompletedBasic
    /\ LastMove.piece = King
    /\ LastMove.is_capture
    /\ Before.turn = Black
    /\ black_king = LastTo
    /\ black_king # Before.black_king
    /\ white_king = initial.white_king

\* The directions of each search in the order they are listed.
ListedDeltas(piece) ==
    IF piece = Rook THEN <<<<1, 0>>, <<0, 1>>, <<-1, 0>>, <<0, -1>>>>
    ELSE IF piece = Bishop THEN <<<<1, 1>>, <<1, -1>>, <<-1, 1>>, <<-1, -1>>>>
    ELSE <<<<1, 1>>, <<1, -1>>, <<-1, 1>>, <<-1, -1>>,
           <<1, 0>>, <<0, 1>>, <<-1, 0>>, <<0, -1>>>>

\* The scan order from the square `to`: direction after direction from
\* the i-th on, and in a direction the nearest square first.
RECURSIVE ScanOrder(_, _, _)

ScanOrder(to, deltas, i) ==
    IF i > Len(deltas) THEN <<>>
    ELSE Walk(to[1] + deltas[i][1], to[2] + deltas[i][2], deltas[i][1], deltas[i][2])
             \o ScanOrder(to, deltas, i + 1)

\* The first square of the sequence order that is in the set sqs.
FirstOf(order, sqs) ==
    order[CHOOSE i \in 1 .. Len(order) :
              /\ order[i] \in sqs
              /\ \A j \in 1 .. i - 1 : order[j] \notin sqs]

\* The pieces of the type and color that reach the square `to` in the
\* game g along a line of empty squares, agree with the hint and pass the
\* pin filter.
SliderCandidates(g, piece, color, to, maybe_from_x, maybe_from_y) ==
    {sq \in Squares :
        /\ At(g.board, sq) = Some(color, piece)
        /\ \E n \in 1 .. Len(ScanOrder(to, ListedDeltas(piece), 1)) :
               ScanOrder(to, ListedDeltas(piece), 1)[n] = sq
        /\ ClearLine(g.board, sq, to)
        /\ HintAgrees(sq[1], sq[2], maybe_from_x, maybe_from_y)
        /\ piece_can_move(g, sq[1], sq[2], color).can_move}

\* The candidates of the last move played, a move of a bishop, a rook or a
\* queen.
LastCandidates ==
    SliderCandidates(Before, LastMove.piece, Before.turn, LastTo,
                     square_to_maybe_indexes(LastMove.from)[1],
                     square_to_maybe_indexes(LastMove.from)[2])

\* The search of the last move, made again on the game g.
LastSearch(g) ==
    find_piece(g, LastMove.piece, SliderDeltas(LastMove.piece), LastTo[1], LastTo[2],
               Before.turn, square_to_maybe_indexes(LastMove.from)[1],
               square_to_maybe_indexes(LastMove.from)[2], TRUE)

C26_TurnMarker ==
    view # NoView =>
        /\ Len(view.text) = 10
        /\ Cardinality({i \in 1 .. Len(view.text) : view.text[i].icon # ""}) = 1
        /\ view.text[2].icon # "" <=> turn = Black
        /\ view.text[9].icon # "" <=> turn = White

\* show() was called with White to move after some moves: the marker is
\* on the line of row 7 and on no other.
C26_Witness ==
    /\ view # NoView
    /\ played # <<>>
    /\ turn = White
    /\ view.text[9].icon = "icon:circle-thin[size=70%]"
    /\ \A i \in 1 .. 10 : i # 9 => view.text[i].icon = ""

\* The files a..h and the ranks 1..8, with the column and the row the
\* board gives them.
IsFile(c) == c \in {"a", "b", "c", "d", "e", "f", "g", "h"}
IsRank(c) == c \in {"1", "2", "3", "4", "5", "6", "7", "8"}

FileIndex(c) ==
    CASE c = "a" -> 0 [] c = "b" -> 1 [] c = "c" -> 2 [] c = "d" -> 3
      [] c = "e" -> 4 [] c = "f" -> 5 [] c = "g" -> 6 [] c = "h" -> 7

RankRow(c) ==
    CASE c = "1" -> 7 [] c = "2" -> 6 [] c = "3" -> 5 [] c = "4" -> 4
      [] c = "5" -> 3 [] c = "6" -> 2 [] c = "7" -> 1 [] c = "8" -> 0

\* A file a..h and a rank 1..8 are converted to x = file index and y =
\* 8 - rank, within 0..7; in the partial conversion x is absent exactly
\* for the file x and y exactly for the rank x, and a component given has
\* the value of the full conversion.
ValidSquares ==
    /\ conv.kind = "full" /\ IsFile(conv.square[1]) /\ IsRank(conv.square[2]) =>
           /\ ~conv.out.panicked
           /\ conv.out.value = <<FileIndex(conv.square[1]), RankRow(conv.square[2])>>
           /\ conv.out.value \in Idx \X Idx
    /\ /\ conv.kind = "maybe"
       /\ IsFile(conv.square[1]) \/ conv.square[1] = "x"
       /\ IsRank(conv.square[2]) \/ conv.square[2] = "x"
       => /\ ~conv.out.panicked
          /\ conv.out.value[1] = NoneIdx <=> conv.square[1] = "x"
          /\ conv.out.value[2] = NoneIdx <=> conv.square[2] = "x"
          /\ conv.square[1] # "x" => conv.out.value[1] = FileIndex(conv.square[1])
          /\ conv.square[2] # "x" => conv.out.value[2] = RankRow(conv.square[2])

\* The character read for the file, or for the rank, is not one the
\* conversion made is defined for.
OtherFile ==
    /\ conv.kind # "none"
    /\ ~IsFile(conv.square[1])
    /\ conv.kind = "maybe" => conv.square[1] # "x"

OtherRank ==
    /\ conv.kind # "none"
    /\ ~IsRank(conv.square[2])
    /\ conv.kind = "maybe" => conv.square[2] # "x"

RECURSIVE Concat(_)
Concat(seqs) == IF seqs = <<>> THEN <<>> ELSE Head(seqs) \o Concat(Tail(seqs))

Written == doc # NoDoc
DocStrings ==
    doc.main \o Concat([i \in 1 .. Len(doc.rows) |-> doc.rows[i].first \o doc.rows[i].variation])
DocMarkers == Concat([i \in 1 .. Len(DocStrings) |-> DocStrings[i].markers])
MoveComments ==
    {doc.game[n].comment : n \in 1 .. Len(doc.game)}
        \cup UNION {{doc.game[InitialLen + 1].variations[v][i].comment :
                        i \in 1 .. Len(doc.game[InitialLen + 1].variations[v])} :
                    v \in 1 .. Len(doc.game[InitialLen + 1].variations)}
OverflowComments ==
    UNION {{doc.rows[r].variation[i].comment : i \in 1 .. Len(doc.rows[r].variation)} :
              r \in 1 .. Len(doc.rows)}

\* C28: over the document of one game, every footnote marker written after
\* a move, the moves folded into a footnote included, has the number of the
\* entry of the final comment list it was written for, and the comment of
\* every move is in that list exactly once.
C28_Footnotes ==
    Written =>
        /\ \A i \in 1 .. Len(DocMarkers) :
               /\ DocMarkers[i].k \in 1 .. Len(doc.comments)
               /\ doc.comments[DocMarkers[i].k] = DocMarkers[i].of
        /\ \A c \in MoveComments \ {NoComment} :
               Cardinality({k \in 1 .. Len(doc.comments) : doc.comments[k] = Comment(c)}) = 1

====
